---- MODULE Spec2Model ----
(***************************************************************************)
(* SmartMeal (src/app.py): the rating -> smoothed rating -> adjusted price *)
(* -> composite score -> dish-of-the-day pipeline and the Streamlit        *)
(* session state it runs on.                                               *)
(*                                                                         *)
(* Numbers.  Python floats are modelled as exact rationals <<n, d>> in     *)
(* lowest terms with d > 0.  round(x, 2) is modelled as rounding the exact *)
(* value to the nearest hundredth; a value exactly half way between two    *)
(* hundredths goes to the even one (what Python does when the half is      *)
(* exactly representable).  The price inputs used below never produce such *)
(* a half-way value, because for those the float result depends on the     *)
(* binary representation error of the product.                             *)
(*                                                                         *)
(* Passthrough metadata (title, image, protein, fat, carbs) takes no part  *)
(* in any computation and is left out of the records.                      *)
(***************************************************************************)
EXTENDS Integers, Sequences, FiniteSets, TLC

VARIABLES
    recipe_ratings,    \* st.session_state.recipe_ratings, in dict insertion order
    recipes,           \* st.session_state.recipes
    favorite_recipes,  \* st.session_state.favorite_recipes, in dict insertion order
    sidebar,           \* what the surprise-me block rendered in this script run
    score_df,          \* score_df of the last script run (app.py:584)
    best,              \* (best, best_score) of the last script run (app.py:587)
    saved_ids,         \* history: the recipe ids a rating was saved for (app.py:555)
    call,              \* a direct call of one of the helper functions: its arguments
    ret                \* ... and its return value

vars == <<recipe_ratings, recipes, favorite_recipes, sidebar, score_df, best, saved_ids,
          call, ret>>

appVars == <<recipe_ratings, recipes, favorite_recipes, sidebar, score_df, best, saved_ids>>

fnVars == <<call, ret>>

(***************************************************************************)
(* Exact rational arithmetic standing for float arithmetic.                *)
(***************************************************************************)
Abs(x) == IF x < 0 THEN -x ELSE x

RECURSIVE GCD(_, _)
GCD(a, b) == IF b = 0 THEN a ELSE GCD(b, a % b)

Rat(n, d) ==
    LET s == IF d < 0 THEN -1 ELSE 1
        g == GCD(Abs(n), Abs(d))
    IN  <<(s * n) \div g, (s * d) \div g>>

Int2Rat(i) == <<i, 1>>

RAdd(x, y) == Rat(x[1] * y[2] + y[1] * x[2], x[2] * y[2])

RSub(x, y) == Rat(x[1] * y[2] - y[1] * x[2], x[2] * y[2])

RMul(x, y) == Rat(x[1] * y[1], x[2] * y[2])

RDiv(x, y) == Rat(x[1] * y[2], x[2] * y[1])

RLt(x, y) == x[1] * y[2] < y[1] * x[2]

RLe(x, y) == x[1] * y[2] <= y[1] * x[2]

RGe(x, y) == RLe(y, x)

RGt(x, y) == RLt(y, x)

\* round(x, 2) for x >= 0: nearest hundredth, an exact half to the even one
Round2(x) ==
    LET n == 100 * x[1]
        d == x[2]
        q == n \div d
        r == n % d
        c == IF 2 * r > d \/ (2 * r = d /\ q % 2 = 1) THEN q + 1 ELSE q
    IN  Rat(c, 100)

\* Python's sum(): start at 0, add left to right
RECURSIVE RSum(_)
RSum(s) == IF s = <<>> THEN Int2Rat(0) ELSE RAdd(RSum(SubSeq(s, 1, Len(s) - 1)), s[Len(s)])

\* pandas Series.min() / Series.max() of a non-empty series
RECURSIVE SeriesMin(_)
SeriesMin(s) ==
    IF Len(s) = 1 THEN s[1]
    ELSE LET m == SeriesMin(Tail(s)) IN IF RLe(s[1], m) THEN s[1] ELSE m

RECURSIVE SeriesMax(_)
SeriesMax(s) ==
    IF Len(s) = 1 THEN s[1]
    ELSE LET m == SeriesMax(Tail(s)) IN IF RGe(s[1], m) THEN s[1] ELSE m

(***************************************************************************)
(* Price helpers                                                           *)
(***************************************************************************)
\* recipe.get("pricePerServing", 0) is in cents
extract_base_price(recipe) == Round2(RDiv(recipe.pricePerServing, Int2Rat(100)))

PREMIUM_FACTOR == Rat(12, 10)

DISCOUNT_FACTOR == Rat(9, 10)

\* a premium band that starts at 4.0
PREMIUM_RATING_low == Rat(4, 1)

PREMIUM_RATING == Rat(45, 10)

LOW_RATING == Rat(3, 1)

\* calculate_price with both band edges on the wrong side
calculate_price_edges(base_price, rating) ==
    IF base_price = Int2Rat(0) THEN Int2Rat(0)
    ELSE IF RGt(rating, PREMIUM_RATING) THEN Round2(RMul(base_price, PREMIUM_FACTOR))
    ELSE IF RLe(rating, LOW_RATING) THEN Round2(RMul(base_price, DISCOUNT_FACTOR))
    ELSE Round2(base_price)

\* calculate_price without the discount band
calculate_price_no_discount(base_price, rating) ==
    IF base_price = Int2Rat(0) THEN Int2Rat(0)
    ELSE IF RGe(rating, PREMIUM_RATING) THEN Round2(RMul(base_price, PREMIUM_FACTOR))
    ELSE Round2(base_price)

calculate_price(base_price, rating) ==
    IF base_price = Int2Rat(0) THEN Int2Rat(0)
    ELSE IF RGe(rating, PREMIUM_RATING) THEN Round2(RMul(base_price, PREMIUM_FACTOR))
    ELSE IF RLt(rating, LOW_RATING) THEN Round2(RMul(base_price, DISCOUNT_FACTOR))
    ELSE Round2(base_price)

(***************************************************************************)
(* Metrics helpers                                                         *)
(***************************************************************************)
PRIOR_C == Rat(35, 10)

PRIOR_M == 5

\* bayesian_average with the observed mean not weighted by n
bayesian_average_unweighted(ratings) ==
    LET n == Len(ratings) IN
    IF n = 0 THEN Int2Rat(0)
    ELSE RDiv(RAdd(RMul(Int2Rat(PRIOR_M), PRIOR_C), RDiv(RSum(ratings), Int2Rat(n))),
              Int2Rat(PRIOR_M + n))

\* bayesian_average dividing by n instead of m + n
bayesian_average_by_n(ratings) ==
    LET n == Len(ratings) IN
    IF n = 0 THEN Int2Rat(0)
    ELSE RDiv(RAdd(RMul(Int2Rat(PRIOR_M), PRIOR_C),
                   RMul(Int2Rat(n), RDiv(RSum(ratings), Int2Rat(n)))),
              Int2Rat(n))

\* bayesian_average with n used where the prior weight m belongs
bayesian_average_m_as_n(ratings) ==
    LET n == Len(ratings) IN
    IF n = 0 THEN Int2Rat(0)
    ELSE RDiv(RAdd(RMul(Int2Rat(n), PRIOR_C),
                   RMul(Int2Rat(n), RDiv(RSum(ratings), Int2Rat(n)))),
              Int2Rat(n + n))

bayesian_average(ratings) ==
    LET n == Len(ratings) IN
    IF n = 0 THEN Int2Rat(0)
    ELSE RDiv(RAdd(RMul(Int2Rat(PRIOR_M), PRIOR_C),
                   RMul(Int2Rat(n), RDiv(RSum(ratings), Int2Rat(n)))),
              Int2Rat(PRIOR_M + n))

\* first nutrient named "Calories", else 0.0
RECURSIVE extract_calories_from(_)
extract_calories_from(nutrients) ==
    IF nutrients = <<>> THEN Int2Rat(0)
    ELSE IF Head(nutrients).name = "Calories" THEN Head(nutrients).amount
    ELSE extract_calories_from(Tail(nutrients))

extract_calories(recipe) == extract_calories_from(recipe.nutrients)

WEIGHT_RATING == Rat(5, 10)

WEIGHT_PRICE == Rat(3, 10)

WEIGHT_CAL == Rat(2, 10)

\* norm ignoring reverse
norm_forward(series, reverse) ==
    LET mx == SeriesMax(series)
        mn == SeriesMin(series)
    IN  IF mx = mn THEN [i \in DOMAIN series |-> Int2Rat(1)]
        ELSE [i \in DOMAIN series |-> RDiv(RSub(series[i], mn), RSub(mx, mn))]

\* norm that does not subtract the minimum
norm_unshifted(series, reverse) ==
    LET mx == SeriesMax(series)
        mn == SeriesMin(series)
    IN  IF mx = mn THEN [i \in DOMAIN series |-> Int2Rat(1)]
        ELSE [i \in DOMAIN series |->
                LET res == RDiv(series[i], RSub(mx, mn))
                IN  IF reverse THEN RSub(Int2Rat(1), res) ELSE res]

\* norm giving 0.0 instead of 1.0 for a series of equal values
norm_degenerate_zero(series, reverse) ==
    LET mx == SeriesMax(series)
        mn == SeriesMin(series)
    IN  IF mx = mn THEN [i \in DOMAIN series |-> Int2Rat(0)]
        ELSE [i \in DOMAIN series |->
                LET res == RDiv(RSub(series[i], mn), RSub(mx, mn))
                IN  IF reverse THEN RSub(Int2Rat(1), res) ELSE res]

norm(series, reverse) ==
    LET mx == SeriesMax(series)
        mn == SeriesMin(series)
    IN  IF mx = mn THEN [i \in DOMAIN series |-> Int2Rat(1)]
        ELSE [i \in DOMAIN series |->
                LET res == RDiv(RSub(series[i], mn), RSub(mx, mn))
                IN  IF reverse THEN RSub(Int2Rat(1), res) ELSE res]

\* the rows loop without the skip of entries that have no ratings
RECURSIVE score_rows_keep_unrated(_)
score_rows_keep_unrated(entries) ==
    IF entries = <<>> THEN <<>>
    ELSE LET e == entries[Len(entries)]
             before == score_rows_keep_unrated(SubSeq(entries, 1, Len(entries) - 1))
             bayes == bayesian_average(e.ratings)
             price == calculate_price(e.base_price, bayes)
         IN  Append(before, [id |-> e.id, calories |-> e.calories,
                             bayes_rating |-> bayes, price |-> price])

\* the rows loop of build_score_df: one row per entry with ratings, in dict order
RECURSIVE score_rows(_)
score_rows(entries) ==
    IF entries = <<>> THEN <<>>
    ELSE LET e == entries[Len(entries)]
             before == score_rows(SubSeq(entries, 1, Len(entries) - 1))
         IN  IF e.ratings = <<>> THEN before
             ELSE LET bayes == bayesian_average(e.ratings)
                      price == calculate_price(e.base_price, bayes)
                  IN  Append(before, [id |-> e.id, calories |-> e.calories,
                                      bayes_rating |-> bayes, price |-> price])

\* build_score_df normalising the price like the rating (higher is better)
build_score_df_price_forward(entries) ==
    LET rows == score_rows(entries) IN
    IF rows = <<>> THEN <<>>
    ELSE LET norm_rating == norm([i \in DOMAIN rows |-> rows[i].bayes_rating], FALSE)
             norm_price == norm([i \in DOMAIN rows |-> rows[i].price], FALSE)
             norm_cal == norm([i \in DOMAIN rows |-> rows[i].calories], TRUE)
         IN  [i \in DOMAIN rows |->
                [id |-> rows[i].id, calories |-> rows[i].calories,
                 bayes_rating |-> rows[i].bayes_rating, price |-> rows[i].price,
                 norm_rating |-> norm_rating[i], norm_price |-> norm_price[i],
                 norm_cal |-> norm_cal[i],
                 score |-> RAdd(RAdd(RMul(WEIGHT_RATING, norm_rating[i]),
                                     RMul(WEIGHT_PRICE, norm_price[i])),
                                RMul(WEIGHT_CAL, norm_cal[i]))]]

build_score_df(entries) ==
    LET rows == score_rows(entries) IN
    IF rows = <<>> THEN <<>>
    ELSE LET norm_rating == norm([i \in DOMAIN rows |-> rows[i].bayes_rating], FALSE)
             norm_price == norm([i \in DOMAIN rows |-> rows[i].price], TRUE)
             norm_cal == norm([i \in DOMAIN rows |-> rows[i].calories], TRUE)
         IN  [i \in DOMAIN rows |->
                [id |-> rows[i].id, calories |-> rows[i].calories,
                 bayes_rating |-> rows[i].bayes_rating, price |-> rows[i].price,
                 norm_rating |-> norm_rating[i], norm_price |-> norm_price[i],
                 norm_cal |-> norm_cal[i],
                 score |-> RAdd(RAdd(RMul(WEIGHT_RATING, norm_rating[i]),
                                     RMul(WEIGHT_PRICE, norm_price[i])),
                                RMul(WEIGHT_CAL, norm_cal[i]))]]

\* an argmax that keeps the last of several maxima
RECURSIVE idxmax_last(_, _, _)
idxmax_last(df, i, besti) ==
    IF i > Len(df) THEN besti
    ELSE idxmax_last(df, i + 1, IF RGe(df[i].score, df[besti].score) THEN i ELSE besti)

\* Series.idxmax(): position of the first occurrence of the maximum
RECURSIVE idxmax_from(_, _, _)
idxmax_from(df, i, besti) ==
    IF i > Len(df) THEN besti
    ELSE idxmax_from(df, i + 1, IF RGt(df[i].score, df[besti].score) THEN i ELSE besti)

idxmax(df) == idxmax_from(df, 2, 1)

None == "None"

choose_dish_of_the_day(df) ==
    IF df = <<>> THEN [best |-> None, score |-> Int2Rat(0)]
    ELSE LET b == df[idxmax(df)] IN [best |-> b, score |-> b.score]


(***************************************************************************)
(* Bounds and input sets                                                   *)
(***************************************************************************)
MaxSaves == 3      \* ratings saved in one session

MaxLen == 3        \* length of a ratings list passed to bayesian_average

MaxSeries == 3     \* length of a series passed to norm

MaxItems == 2      \* entries of a store passed to build_score_df

MaxCopies == 12    \* length of a ratings list of equal ratings

MaxSims == 3       \* length of the similar-recipe list

SeqsUpTo(S, n) == UNION {[1..k -> S] : k \in 0..n}

\* the rating slider: 1.0 .. 5.0 in steps of 0.5
RatingValues == {Rat(h, 2) : h \in 2..10}

\* a slider that runs from 1.0 to 5.5
SessionRatings_wide == {Rat(1, 1), Rat(11, 2)}

\* the ratings a user of the modelled session picks on the slider
SessionRatings == {Rat(1, 1), Rat(5, 1)}

RecipeIds == {1, 2}

SimilarIds == {1, 2, 3}

CatalogVersions == {1, 2}

\* Spoonacular's answer for a recipe id; the catalog data of recipe 1 changes
\* between the two versions.
fetch_recipe_info(recipe_id, version) ==
    IF recipe_id = 1 /\ version = 1
    THEN [id |-> 1, pricePerServing |-> Rat(800, 1),
          nutrients |-> <<[name |-> "Calories", amount |-> Int2Rat(800)]>>]
    ELSE IF recipe_id = 1
    THEN [id |-> 1, pricePerServing |-> Rat(123436, 100),
          nutrients |-> <<[name |-> "Protein", amount |-> Int2Rat(30)],
                          [name |-> "Calories", amount |-> Int2Rat(300)]>>]
    ELSE IF recipe_id = 2
    THEN [id |-> 2, pricePerServing |-> Rat(1000, 1),
          nutrients |-> <<[name |-> "Calories", amount |-> Int2Rat(400)]>>]
    ELSE [id |-> recipe_id, pricePerServing |-> Rat(1500, 1),
          nutrients |-> <<[name |-> "Protein", amount |-> Int2Rat(40)]>>]

DistinctSeqs(S, n) == {s \in SeqsUpTo(S, n) : \A i, j \in DOMAIN s : s[i] = s[j] => i = j}

search_recipes_by_protein(ids, version) ==
    [i \in DOMAIN ids |-> fetch_recipe_info(ids[i], version)]

\* a loop that stops at the first detail lookup that raises
RECURSIVE fetch_similar_recipes_abort(_, _, _, _)
fetch_similar_recipes_abort(sims, exclude_ids, fails, version) ==
    IF sims = <<>> THEN <<>>
    ELSE LET rid == Head(sims)
             rest == fetch_similar_recipes_abort(Tail(sims), exclude_ids, fails, version)
         IN  IF rid \in exclude_ids THEN rest
             ELSE IF rid \in fails THEN <<>>
             ELSE <<fetch_recipe_info(rid, version)>> \o rest

\* the loop of fetch_similar_recipes over the similar list `sims`; `fails` are
\* the ids whose detail lookup raises
RECURSIVE fetch_similar_recipes(_, _, _, _)
fetch_similar_recipes(sims, exclude_ids, fails, version) ==
    IF sims = <<>> THEN <<>>
    ELSE LET rid == Head(sims)
             rest == fetch_similar_recipes(Tail(sims), exclude_ids, fails, version)
         IN  IF rid \in exclude_ids THEN rest
             ELSE IF rid \in fails THEN rest
             ELSE <<fetch_recipe_info(rid, version)>> \o rest

(***************************************************************************)
(* The Streamlit session.  Every action is one run of the script: the      *)
(* handler of the widget that fired, then the dish-of-the-day pass.        *)
(***************************************************************************)
NoCall == [fn |-> "none"]

NoRet == [fn |-> "none"]

Blank == [kind |-> "blank"]

\* a pass that scores only the rated items of the displayed search result
ScoringPass_displayed(store) ==
    /\ score_df' = build_score_df(SelectSeq(store,
                      LAMBDA e : \E i \in DOMAIN recipes : recipes[i].id = e.id))
    /\ best' = choose_dish_of_the_day(score_df')

ScoringPass(store) ==
    /\ score_df' = build_score_df(store)
    /\ best' = choose_dish_of_the_day(score_df')

AppInit ==
    /\ recipe_ratings = <<>>
    /\ recipes = <<>>
    /\ favorite_recipes = <<>>
    /\ sidebar = Blank
    /\ score_df = build_score_df(<<>>)
    /\ best = choose_dish_of_the_day(build_score_df(<<>>))
    /\ saved_ids = {}

Init == AppInit /\ call = NoCall /\ ret = NoRet

\* keys of a dict modelled as a function
Keys(d) == DOMAIN d

SetItem(d, k, v) == [x \in Keys(d) \cup {k} |-> IF x = k THEN v ELSE d[x]]

Pop(d, k) == [x \in Keys(d) \ {k} |-> d[x]]

\* a save that replaces the stored ratings list: recipe_ratings[rid] = {..., [rating]}
setdefault_append_overwrite(store, rid, kcal, base_price, rating) ==
    IF \E i \in DOMAIN store : store[i].id = rid
    THEN [i \in DOMAIN store |->
            IF store[i].id = rid
            THEN [store[i] EXCEPT !.ratings = <<rating>>]
            ELSE store[i]]
    ELSE Append(store, [id |-> rid, calories |-> kcal, base_price |-> base_price,
                        ratings |-> <<rating>>])

\* a save that also refreshes calories and base price from the displayed recipe
setdefault_append_refresh(store, rid, kcal, base_price, rating) ==
    IF \E i \in DOMAIN store : store[i].id = rid
    THEN [i \in DOMAIN store |->
            IF store[i].id = rid
            THEN [id |-> rid, calories |-> kcal, base_price |-> base_price,
                  ratings |-> Append(store[i].ratings, rating)]
            ELSE store[i]]
    ELSE Append(store, [id |-> rid, calories |-> kcal, base_price |-> base_price,
                        ratings |-> <<rating>>])

\* a save whose first call only creates the entry and drops the rating
setdefault_append_lazy(store, rid, kcal, base_price, rating) ==
    IF \E i \in DOMAIN store : store[i].id = rid
    THEN [i \in DOMAIN store |->
            IF store[i].id = rid
            THEN [store[i] EXCEPT !.ratings = Append(@, rating)]
            ELSE store[i]]
    ELSE Append(store, [id |-> rid, calories |-> kcal, base_price |-> base_price,
                        ratings |-> <<>>])

\* recipe_ratings.setdefault(rid, {... "ratings": []})["ratings"].append(rating)
setdefault_append(store, rid, kcal, base_price, rating) ==
    IF \E i \in DOMAIN store : store[i].id = rid
    THEN [i \in DOMAIN store |->
            IF store[i].id = rid
            THEN [store[i] EXCEPT !.ratings = Append(@, rating)]
            ELSE store[i]]
    ELSE Append(store, [id |-> rid, calories |-> kcal, base_price |-> base_price,
                        ratings |-> <<rating>>])

RECURSIVE TotalRatings(_)
TotalRatings(store) ==
    IF store = <<>> THEN 0 ELSE Len(Head(store).ratings) + TotalRatings(Tail(store))

\* the id lists a search can return
SearchIdLists == DistinctSeqs(RecipeIds, 2)

\* the similar-recipe lists the API can answer with, and the lookups that fail
SimilarLists == {<<>>, <<3>>, <<1, 3>>, <<3, 2>>, <<2, 1>>}

FailSets == {{}, {3}}

\* a search that starts the rated collection afresh
Search_resetting ==
    /\ recipe_ratings' = <<>>
    /\ ScoringPass(recipe_ratings')
    /\ sidebar' = Blank
    /\ \E ids \in SearchIdLists, version \in CatalogVersions :
          recipes' = search_recipes_by_protein(ids, version)
    /\ UNCHANGED <<favorite_recipes, saved_ids, fnVars>>

Search ==
    /\ ScoringPass(recipe_ratings)
    /\ sidebar' = Blank
    /\ \E ids \in SearchIdLists, version \in CatalogVersions :
          recipes' = search_recipes_by_protein(ids, version)
    /\ UNCHANGED <<recipe_ratings, favorite_recipes, saved_ids, fnVars>>

ToggleFavorite ==
    /\ ScoringPass(recipe_ratings)
    /\ sidebar' = Blank
    /\ \E i \in DOMAIN recipes :
          LET rec == recipes[i]
              rid == rec.id
              fav == rid \in Keys(favorite_recipes)
          IN  favorite_recipes' = IF fav THEN Pop(favorite_recipes, rid)
                                  ELSE SetItem(favorite_recipes, rid, rec)
    /\ UNCHANGED <<recipe_ratings, recipes, saved_ids, fnVars>>

SaveRating ==
    /\ TotalRatings(recipe_ratings) < MaxSaves
    /\ \E i \in DOMAIN recipes, rating \in SessionRatings :
          LET rec == recipes[i]
              rid == rec.id
              base_price == extract_base_price(rec)
              kcal == extract_calories(rec)
          IN  /\ recipe_ratings' =
                    setdefault_append(recipe_ratings, rid, kcal, base_price, rating)
              /\ saved_ids' = saved_ids \cup {rid}
    /\ sidebar' = Blank
    /\ ScoringPass(recipe_ratings')
    /\ UNCHANGED <<recipes, favorite_recipes, fnVars>>

SurpriseMe ==
    /\ ScoringPass(recipe_ratings)
    /\ IF Keys(favorite_recipes) = {}
       THEN sidebar' = [kind |-> "warning"]
       ELSE \E seed \in {favorite_recipes[k] : k \in Keys(favorite_recipes)},
               sims \in SimilarLists, fails \in FailSets, version \in CatalogVersions :
              LET similar == fetch_similar_recipes(sims, Keys(favorite_recipes), fails, version)
              IN  IF similar = <<>>
                  THEN sidebar' = [kind |-> "info"]
                  ELSE \E p \in DOMAIN similar :
                         sidebar' = [kind |-> "pick", id |-> similar[p].id,
                                     kcal |-> extract_calories(similar[p]),
                                     price |-> extract_base_price(similar[p])]
    /\ UNCHANGED <<recipe_ratings, recipes, favorite_recipes, saved_ids, fnVars>>

Next ==
    \/ Search
    \/ ToggleFavorite
    \/ SaveRating
    \/ SurpriseMe

Spec == Init /\ [][Next]_vars

(***************************************************************************)
(* The helper functions called directly, on arguments drawn from bounded   *)
(* sets: call holds the arguments, ret the value returned.                 *)
(***************************************************************************)
BayesInputs == {[fn |-> "bayesian_average", ratings |-> r] : r \in SeqsUpTo(RatingValues, MaxLen)}

BasePrices == {Int2Rat(0), Rat(7, 100), Int2Rat(8), Int2Rat(10), Rat(1234, 100), Rat(1999, 100)}

\* ratings handed to calculate_price: the 0.0 sentinel, both band edges and
\* values on either side of them
PriceRatings == {Int2Rat(0), Int2Rat(1), Rat(299, 100), Int2Rat(3), Rat(7, 2),
                 Rat(449, 100), Rat(9, 2), Int2Rat(5)}

PriceInputs == {[fn |-> "calculate_price", base_price |-> b, rating |-> r] :
                    b \in BasePrices, r \in PriceRatings}

SeriesValues == {Int2Rat(0), Int2Rat(1), Int2Rat(2), Int2Rat(3), Rat(5, 2)}

NormInputs == {[fn |-> "norm", series |-> s, reverse |-> rev] :
                    s \in SeqsUpTo(SeriesValues, MaxSeries) \ {<<>>}, rev \in BOOLEAN}

\* ratings lists of a stored entry: none, one in the middle band, the lower
\* band, exactly 3.0, nine top ratings (just below 4.5) and ten (exactly 4.5)
StoreRatings == {<<>>, <<Int2Rat(3)>>, <<Int2Rat(5), Int2Rat(5)>>,
                 <<Int2Rat(1), Int2Rat(1), Int2Rat(1)>>, <<Int2Rat(1), Rat(5, 2)>>,
                 [i \in 1..9 |-> Int2Rat(5)], [i \in 1..10 |-> Int2Rat(5)]}

StoreCalories == {Int2Rat(300), Int2Rat(800)}

StorePrices == {Int2Rat(0), Int2Rat(8), Int2Rat(12)}

StoreInputs ==
    {[fn |-> "build_score_df",
      entries |-> [i \in DOMAIN c |-> [id |-> i, calories |-> c[i][1],
                                       base_price |-> c[i][2], ratings |-> c[i][3]]]] :
        c \in SeqsUpTo(StoreCalories \X StorePrices \X StoreRatings, MaxItems)}

\* the three rated dishes A (id 1), B (id 2), C (id 3) of the end-to-end scenario
ScenarioStore ==
    <<[id |-> 1, calories |-> Int2Rat(400), base_price |-> Int2Rat(10),
       ratings |-> <<Int2Rat(5), Int2Rat(5)>>],
      [id |-> 2, calories |-> Int2Rat(800), base_price |-> Int2Rat(8),
       ratings |-> <<Int2Rat(3)>>],
      [id |-> 3, calories |-> Int2Rat(300), base_price |-> Int2Rat(12),
       ratings |-> <<Int2Rat(1), Int2Rat(1), Int2Rat(1)>>]>>

ScenarioInputs == {[fn |-> "build_score_df", entries |-> ScenarioStore]}

SimilarInputs ==
    {[fn |-> "fetch_similar_recipes", sims |-> l, exclude_ids |-> x, fails |-> f,
      version |-> v] :
        l \in SeqsUpTo(SimilarIds, MaxSims), x \in SUBSET SimilarIds,
        f \in SUBSET SimilarIds, v \in CatalogVersions}

FnInit ==
    /\ AppInit
    /\ call \in BayesInputs \cup PriceInputs \cup NormInputs \cup StoreInputs
                 \cup ScenarioInputs \cup SimilarInputs
    /\ ret = NoRet

CallBayesianAverage ==
    /\ call.fn = "bayesian_average" /\ ret = NoRet
    /\ ret' = [fn |-> "bayesian_average", val |-> bayesian_average(call.ratings)]
    /\ UNCHANGED <<call, appVars>>

\* the same rating once more: bayesian_average of the list one copy longer
CallBayesianAverageAgain ==
    /\ call.fn = "bayesian_average" /\ ret.fn = "bayesian_average"
    /\ call.ratings # <<>>
    /\ \A k \in DOMAIN call.ratings : call.ratings[k] = call.ratings[1]
    /\ Len(call.ratings) < MaxCopies
    /\ call' = [call EXCEPT !.ratings = Append(@, @[1])]
    /\ ret' = [fn |-> "bayesian_average", val |-> bayesian_average(call'.ratings)]
    /\ UNCHANGED appVars

CallFetchSimilarRecipes ==
    /\ call.fn = "fetch_similar_recipes" /\ ret = NoRet
    /\ ret' = [fn |-> "fetch_similar_recipes",
               val |-> fetch_similar_recipes(call.sims, call.exclude_ids, call.fails,
                                             call.version)]
    /\ UNCHANGED <<call, appVars>>

CallCalculatePrice ==
    /\ call.fn = "calculate_price" /\ ret = NoRet
    /\ ret' = [fn |-> "calculate_price", val |-> calculate_price(call.base_price, call.rating)]
    /\ UNCHANGED <<call, appVars>>

CallNorm ==
    /\ call.fn = "norm" /\ ret = NoRet
    /\ ret' = [fn |-> "norm", val |-> norm(call.series, call.reverse)]
    /\ UNCHANGED <<call, appVars>>

CallBuildScoreDf ==
    /\ call.fn = "build_score_df" /\ ret = NoRet
    /\ ret' = [fn |-> "build_score_df", df |-> build_score_df(call.entries)]
    /\ UNCHANGED <<call, appVars>>

CallChooseDishOfTheDay ==
    /\ ret.fn = "build_score_df"
    /\ ret' = [fn |-> "choose_dish_of_the_day", df |-> ret.df,
               val |-> choose_dish_of_the_day(ret.df)]
    /\ UNCHANGED <<call, appVars>>

FnNext ==
    \/ CallBayesianAverage
    \/ CallBayesianAverageAgain
    \/ CallFetchSimilarRecipes
    \/ CallCalculatePrice
    \/ CallNorm
    \/ CallBuildScoreDf
    \/ CallChooseDishOfTheDay

SpecFn == FnInit /\ [][FnNext]_vars

(***************************************************************************)
(* Properties                                                              *)
(***************************************************************************)
Range(f) == {f[i] : i \in DOMAIN f}

\* twice a rating, an integer for every slider value
Halves(r) == (2 * r[1]) \div r[2]

RECURSIVE SumHalves(_)
SumHalves(s) == IF s = <<>> THEN 0 ELSE Halves(Head(s)) + SumHalves(Tail(s))

\* C1: bayesian_average returns 0.0 for an empty ratings list and otherwise
\* exactly (17.5 + sum(ratings)) / (5 + n), n = len(ratings).
C1_BayesFormula ==
    ret.fn = "bayesian_average" =>
        IF call.ratings = <<>> THEN ret.val = <<0, 1>>
        ELSE /\ ret.val[2] > 0
             /\ GCD(Abs(ret.val[1]), ret.val[2]) = 1
             /\ ret.val[1] * 2 * (5 + Len(call.ratings))
                    = (35 + SumHalves(call.ratings)) * ret.val[2]

\* [4.5, 1.0, 3.5] -> (17.5 + 9) / 8 = 53/16
C1_Witness ==
    /\ ret.fn = "bayesian_average"
    /\ call.ratings = <<Rat(9, 2), Rat(1, 1), Rat(7, 2)>>
    /\ ret.val = <<53, 16>>

\* a price as a whole number of cents
Cents(x) == (100 * x[1]) \div x[2]

IsCents(x) == (100 * x[1]) % x[2] = 0

\* C2: calculate_price is 0.0 for base price 0; else base * 1.2 to 2 decimals
\* when rating >= 4.5; else base * 0.9 to 2 decimals when rating < 3.0; else
\* base to 2 decimals.  Stated in cents: |100 * result - factor * cents| <= 1/2.
C2_PriceBands ==
    ret.fn = "calculate_price" =>
        LET b == Cents(call.base_price)
            tenths == IF b = 0 THEN 0
                      ELSE IF call.rating[1] * 2 >= 9 * call.rating[2] THEN 12 * b
                      ELSE IF call.rating[1] < 3 * call.rating[2] THEN 9 * b
                      ELSE 10 * b
        IN  /\ IsCents(ret.val)
            /\ 2 * Abs(10 * Cents(ret.val) - tenths) <= 10
            /\ (b = 0 => ret.val = <<0, 1>>)

\* the two edges: 10.00 at exactly 4.5 costs 12.00, 10.00 at exactly 3.0 costs 10.00
C2_Witness ==
    /\ ret.fn = "calculate_price"
    /\ call.base_price = <<10, 1>>
    /\ \/ call.rating = <<9, 2>> /\ ret.val = <<12, 1>>
       \/ call.rating = <<3, 1>> /\ ret.val = <<10, 1>>

\* C3: norm gives 1.0 everywhere when max == min; otherwise element i is
\* (v[i] - min) / (max - min), complemented to 1 - that when reverse is set.
C3_NormFormula ==
    ret.fn = "norm" =>
        LET v == call.series
            mx == CHOOSE m \in Range(v) : \A x \in Range(v) : RLe(x, m)
            mn == CHOOSE m \in Range(v) : \A x \in Range(v) : RLe(m, x)
        IN  /\ DOMAIN ret.val = DOMAIN v
            /\ \A i \in DOMAIN v :
                 LET y == ret.val[i]
                     \* y as a fraction of the spread, over the common denominator
                     lhs == y[1] * (mx[1] * mn[2] - mn[1] * mx[2]) * v[i][2]
                     fwd == (v[i][1] * mn[2] - mn[1] * v[i][2]) * mx[2] * y[2]
                     all == (mx[1] * mn[2] - mn[1] * mx[2]) * v[i][2] * y[2]
                 IN  IF mx = mn THEN y = <<1, 1>>
                     ELSE IF call.reverse THEN lhs = all - fwd
                     ELSE lhs = fwd

\* normalize([1, 2, 3], reverse) == [1, 0.5, 0]
C3_Witness ==
    /\ ret.fn = "norm"
    /\ call.series = <<Int2Rat(1), Int2Rat(2), Int2Rat(3)>>
    /\ call.reverse
    /\ ret.val = <<Int2Rat(1), Rat(1, 2), Int2Rat(0)>>

\* min-max scaling of x within the set of values S, written from the formula
SetMax(S) == CHOOSE m \in S : \A x \in S : RLe(x, m)

SetMin(S) == CHOOSE m \in S : \A x \in S : RLe(m, x)

Scaled(x, S, reverse) ==
    IF SetMax(S) = SetMin(S) THEN Int2Rat(1)
    ELSE LET t == RDiv(RSub(x, SetMin(S)), RSub(SetMax(S), SetMin(S)))
         IN  IF reverse THEN RSub(Int2Rat(1), t) ELSE t

Rated(entries) == {entries[i] : i \in {j \in DOMAIN entries : entries[j].ratings # <<>>}}

\* C4: every rated item of a scoring pass has a row whose price is
\* calculate_price(base_price, bayesian_average(ratings)) and whose score is
\* 0.5 * norm(rating) + 0.3 * reversed norm(price) + 0.2 * reversed norm(calories),
\* each scaled over all rows of the pass.
C4_ScoreComposition ==
    ret.fn = "build_score_df" =>
        LET df == ret.df
            ratingCol == {df[i].bayes_rating : i \in DOMAIN df}
            priceCol == {df[i].price : i \in DOMAIN df}
            calCol == {df[i].calories : i \in DOMAIN df}
        IN  \A e \in Rated(call.entries) :
              \E i \in DOMAIN df :
                /\ df[i].id = e.id
                /\ df[i].calories = e.calories
                /\ df[i].bayes_rating = bayesian_average(e.ratings)
                /\ df[i].price = calculate_price(e.base_price, bayesian_average(e.ratings))
                /\ RMul(Int2Rat(10), df[i].score)
                     = RAdd(RAdd(RMul(Int2Rat(5), Scaled(df[i].bayes_rating, ratingCol, FALSE)),
                                 RMul(Int2Rat(3), Scaled(df[i].price, priceCol, TRUE))),
                            RMul(Int2Rat(2), Scaled(df[i].calories, calCol, TRUE)))

\* ten 5.0 ratings on a 12.00 dish (premium price 14.40, the dearest and the
\* best rated of two) next to a cheaper dish with fewer calories: score 0.5
C4_Witness ==
    /\ ret.fn = "build_score_df"
    /\ Len(ret.df) = 2
    /\ \E i \in DOMAIN ret.df :
          /\ ret.df[i].price = Rat(144, 10)
          /\ ret.df[i].bayes_rating = Rat(9, 2)
          /\ ret.df[i].score = Rat(1, 2)

\* C5: choose_dish_of_the_day returns a row of maximal score, the first such
\* row in the order of the scored collection, and (None, 0.0) when it is empty.
C5_FirstMaximum ==
    ret.fn = "choose_dish_of_the_day" =>
        IF ret.df = <<>>
        THEN ret.val.best = None /\ ret.val.score = <<0, 1>>
        ELSE \E i \in DOMAIN ret.df :
               /\ ret.val.best = ret.df[i]
               /\ ret.val.score = ret.df[i].score
               /\ \A j \in DOMAIN ret.df : RLe(ret.df[j].score, ret.df[i].score)
               /\ \A j \in DOMAIN ret.df : j < i => RLt(ret.df[j].score, ret.df[i].score)

\* two different rows with the same score (0.5 each, one from the rating, the
\* other from price and calories): the first is chosen
C5_Witness ==
    /\ ret.fn = "choose_dish_of_the_day"
    /\ Len(ret.df) = 2
    /\ ret.df[1].score = ret.df[2].score
    /\ ret.df[1].norm_rating # ret.df[2].norm_rating
    /\ ret.val.best = ret.df[1]

WithoutUnrated(entries) == SelectSeq(entries, LAMBDA e : e.ratings # <<>>)

C7_BayesBounded ==
    (ret.fn = "bayesian_average" /\ call.ratings # <<>>) =>
        LET S == Range(call.ratings) \cup {Rat(7, 2)}
        IN  /\ \E lo \in S : RLe(lo, ret.val)
            /\ \E hi \in S : RLe(ret.val, hi)

\* [5.0, 5.0, 5.0] -> 32.5 / 8, strictly between 3.5 and 5.0
C7_Witness ==
    /\ ret.fn = "bayesian_average"
    /\ call.ratings = <<Int2Rat(5), Int2Rat(5), Int2Rat(5)>>
    /\ ret.val = Rat(65, 16)

StoreIds(store) == {store[i].id : i \in DOMAIN store}

EntryOf(store, rid) == store[CHOOSE i \in DOMAIN store : store[i].id = rid]

\* C8: in every step the ratings list of each existing rated item is unchanged
\* or is its previous value with exactly one rating appended at the end.
C8_AppendOnly ==
    [][\A i \in DOMAIN recipe_ratings :
         LET e == recipe_ratings[i] IN
         /\ e.id \in StoreIds(recipe_ratings')
         /\ LET f == EntryOf(recipe_ratings', e.id) IN
            \/ f.ratings = e.ratings
            \/ /\ Len(f.ratings) = Len(e.ratings) + 1
               /\ SubSeq(f.ratings, 1, Len(e.ratings)) = e.ratings]_vars

\* a 1.0 followed by a 5.0 on the same item, kept in submission order
C8_Witness ==
    \E i \in DOMAIN recipe_ratings : recipe_ratings[i].ratings = <<Int2Rat(1), Int2Rat(5)>>

\* C9: a rated item is created with the calories and base price of the recipe
\* shown when its first rating is saved, and no later step changes them.
C9_PriceCaloriesFixed ==
    [][\A j \in DOMAIN recipe_ratings' :
         LET f == recipe_ratings'[j] IN
         IF f.id \in StoreIds(recipe_ratings)
         THEN /\ f.calories = EntryOf(recipe_ratings, f.id).calories
              /\ f.base_price = EntryOf(recipe_ratings, f.id).base_price
         ELSE \E i \in DOMAIN recipes :
                /\ recipes[i].id = f.id
                /\ f.calories = extract_calories(recipes[i])
                /\ f.base_price = extract_base_price(recipes[i])]_vars

\* recipe 1 was first rated at 8.00 / 800 kcal, has been rated three times, and
\* the current search result shows it at 12.34 / 300 kcal
C9_Witness ==
    /\ \E j \in DOMAIN recipe_ratings :
          /\ recipe_ratings[j].id = 1
          /\ recipe_ratings[j].calories = Int2Rat(800)
          /\ recipe_ratings[j].base_price = Int2Rat(8)
          /\ Len(recipe_ratings[j].ratings) = 3
    /\ \E i \in DOMAIN recipes :
          /\ recipes[i].id = 1
          /\ extract_calories(recipes[i]) = Int2Rat(300)
          /\ extract_base_price(recipes[i]) = Rat(1234, 100)

\* C10: the ids of recipe_ratings are exactly the ids a rating was saved for;
\* no entry is ever removed or moved; recipe_ratings changes only in a
\* save-rating run, and then only in the entry of one id.
C10_OnlySaveChanges ==
    [][/\ StoreIds(recipe_ratings) = saved_ids
       /\ StoreIds(recipe_ratings') = saved_ids'
       /\ Cardinality(StoreIds(recipe_ratings')) = Len(recipe_ratings')
       /\ Len(recipe_ratings') >= Len(recipe_ratings)
       /\ \A i \in DOMAIN recipe_ratings : recipe_ratings'[i].id = recipe_ratings[i].id
       /\ recipe_ratings' # recipe_ratings =>
            /\ SaveRating
            /\ \E rid \in saved_ids' :
                 /\ \A i \in DOMAIN recipe_ratings :
                      recipe_ratings[i].id # rid => recipe_ratings'[i] = recipe_ratings[i]
                 /\ \A j \in DOMAIN recipe_ratings' :
                      j > Len(recipe_ratings) => recipe_ratings'[j].id = rid]_vars

\* both recipes rated, the second-created entry is recipe 1, and recipe 1 is
\* no longer in the displayed search result
C10_Witness ==
    /\ Len(recipe_ratings) = 2
    /\ recipe_ratings[2].id = 1
    /\ saved_ids = {1, 2}
    /\ \A i \in DOMAIN recipes : recipes[i].id # 1
    /\ Keys(favorite_recipes) # {}

\* C11: every rating stored in any rated item lies in [1.0, 5.0].
C11_RatingsInRange ==
    \A i \in DOMAIN recipe_ratings :
        \A k \in DOMAIN recipe_ratings[i].ratings :
            /\ RLe(Int2Rat(1), recipe_ratings[i].ratings[k])
            /\ RLe(recipe_ratings[i].ratings[k], Int2Rat(5))

\* both ends of the range are stored: a 5.0 on one item, two 1.0 on another
C11_Witness ==
    /\ Len(recipe_ratings) = 2
    /\ recipe_ratings[1].ratings = <<Int2Rat(5)>>
    /\ recipe_ratings[2].ratings = <<Int2Rat(1), Int2Rat(1)>>

\* C12: for the scenario A, B, C the scoring pass gives adjusted prices
\* 10.0, 8.0 and 10.8, scores ordered A > B > C, and the dish of the day is A.
C12_Scenario ==
    (call.fn = "build_score_df" /\ call.entries = ScenarioStore /\ ret # NoRet) =>
        /\ Len(ret.df) = 3
        /\ ret.df[1].id = 1 /\ ret.df[1].price = Int2Rat(10)
        /\ ret.df[2].id = 2 /\ ret.df[2].price = Int2Rat(8)
        /\ ret.df[3].id = 3 /\ ret.df[3].price = Rat(108, 10)
        /\ RGt(ret.df[1].score, ret.df[2].score)
        /\ RGt(ret.df[2].score, ret.df[3].score)
        /\ ret.fn = "choose_dish_of_the_day" => ret.val.best.id = 1

\* A is chosen with score 0.5 + 0.3 * 2/7 + 0.2 * 4/5 = 261/350
C12_Witness ==
    /\ call.fn = "build_score_df"
    /\ call.entries = ScenarioStore
    /\ ret.fn = "choose_dish_of_the_day"
    /\ ret.val.best.id = 1
    /\ ret.val.score = Rat(261, 350)

RAbs(x) == <<Abs(x[1]), x[2]>>

Uniform(s) == \A k \in DOMAIN s : s[k] = s[1]

\* C14: for n copies of one rating r, |bayesian_average - r| does not grow
\* when a copy is added, and shrinks when r differs from 3.5.
C14_ApproachesRating ==
    [][(/\ call.fn = "bayesian_average" /\ ret.fn = "bayesian_average"
        /\ call.ratings # <<>>
        /\ call'.ratings = Append(call.ratings, call.ratings[1])
        /\ Uniform(call'.ratings))
       => LET r == call.ratings[1]
              before == RAbs(RSub(ret.val, r))
              after == RAbs(RSub(ret'.val, r))
          IN  /\ RLe(after, before)
              /\ r # Rat(7, 2) => RLt(after, before)]_vars

\* eleven 5.0 ratings: (17.5 + 55) / 16
C14_Witness ==
    /\ call.fn = "bayesian_average"
    /\ ret.fn = "bayesian_average"
    /\ call.ratings = [k \in 1..11 |-> Int2Rat(5)]
    /\ ret.val = Rat(145, 32)

\* C15: fetch_similar_recipes returns, in the order of the similar list, the
\* details of exactly the entries whose id is not excluded and whose lookup
\* did not raise.
C15_BestEffortSimilar ==
    ret.fn = "fetch_similar_recipes" =>
        LET kept == SelectSeq(call.sims,
                              LAMBDA rid : rid \notin call.exclude_ids /\ rid \notin call.fails)
        IN  /\ Len(ret.val) = Len(kept)
            /\ \A i \in DOMAIN kept :
                 /\ ret.val[i].id = kept[i]
                 /\ ret.val[i] = fetch_recipe_info(kept[i], call.version)

\* the first lookup raises, the second id is excluded, the third is returned
C15_Witness ==
    /\ ret.fn = "fetch_similar_recipes"
    /\ call.sims = <<3, 1, 2>>
    /\ call.fails = {3}
    /\ call.exclude_ids = {1}
    /\ Len(ret.val) = 1
    /\ ret.val[1].id = 2

InUnit(x) == RLe(Int2Rat(0), x) /\ RLe(x, Int2Rat(1))

\* C17: in every scoring pass, norm_rating, norm_price, norm_cal and the
\* composite score of every item lie in [0, 1].
C17_ScoresInUnit ==
    ret.fn = "build_score_df" =>
        \A i \in DOMAIN ret.df :
            /\ InUnit(ret.df[i].norm_rating)
            /\ InUnit(ret.df[i].norm_price)
            /\ InUnit(ret.df[i].norm_cal)
            /\ InUnit(ret.df[i].score)

\* both ends are taken: one dish best on all three counts, the other worst
C17_Witness ==
    /\ ret.fn = "build_score_df"
    /\ Len(ret.df) = 2
    /\ ret.df[1].score = Int2Rat(1)
    /\ ret.df[2].score = Int2Rat(0)

\* C18: with ratings in [1.0, 5.0], an item with fewer than 10 ratings has a
\* smoothed rating below 4.5 and a scored price of at most its base price.
C18_PremiumNeedsTen ==
    /\ (ret.fn = "bayesian_average" /\ call.ratings # <<>> /\ Len(call.ratings) < 10)
          => RLt(ret.val, Rat(9, 2))
    /\ ret.fn = "build_score_df" =>
          \A e \in Rated(call.entries) :
              Len(e.ratings) < 10 =>
                  \A i \in DOMAIN ret.df :
                      ret.df[i].id = e.id =>
                          /\ RLt(ret.df[i].bayes_rating, Rat(9, 2))
                          /\ RLe(ret.df[i].price, e.base_price)

\* nine 5.0 ratings on a 12.00 dish: smoothed 62.5 / 14, price still 12.00
C18_Witness ==
    /\ ret.fn = "build_score_df"
    /\ \E i \in DOMAIN ret.df :
          /\ Len(call.entries[ret.df[i].id].ratings) = 9
          /\ ret.df[i].bayes_rating = Rat(125, 28)
          /\ ret.df[i].price = Int2Rat(12)

\* the frame df scores every entry of store, each value scaled over all of them
ScoresOverAll(df, store) ==
    LET ratingOf(e) == bayesian_average(e.ratings)
        priceOf(e) == calculate_price(e.base_price, bayesian_average(e.ratings))
        ratingCol == {ratingOf(store[k]) : k \in DOMAIN store}
        priceCol == {priceOf(store[k]) : k \in DOMAIN store}
        calCol == {store[k].calories : k \in DOMAIN store}
    IN  /\ Len(df) = Len(store)
        /\ \A i \in DOMAIN store :
             /\ df[i].id = store[i].id
             /\ df[i].norm_rating = Scaled(ratingOf(store[i]), ratingCol, FALSE)
             /\ df[i].norm_price = Scaled(priceOf(store[i]), priceCol, TRUE)
             /\ df[i].norm_cal = Scaled(store[i].calories, calCol, TRUE)

\* C13: the scoring pass scales rating, price and calories over all items
\* rated so far in the session, displayed or not, and a step that replaces the
\* search results changes no score.
C13_SessionWideScaling ==
    [][recipes' # recipes =>
         /\ score_df' = score_df
         /\ ScoresOverAll(score_df', recipe_ratings')]_vars

\* two rated items, one of them not in the displayed result and scored below
\* the other on calories
C13_Witness ==
    /\ Len(score_df) = 2
    /\ recipes # <<>>
    /\ \E i \in DOMAIN score_df :
          /\ \A k \in DOMAIN recipes : recipes[k].id # score_df[i].id
          /\ score_df[i].norm_cal = Int2Rat(0)

\* C16: every entry of recipe_ratings has at least one rating, every entry has
\* its row in the scoring pass, and the pass is empty exactly when no rating
\* has been saved.
C16_NoUnratedEntry ==
    /\ \A i \in DOMAIN recipe_ratings : recipe_ratings[i].ratings # <<>>
    /\ Len(score_df) = Len(recipe_ratings)
    /\ \A i \in DOMAIN recipe_ratings : score_df[i].id = recipe_ratings[i].id
    /\ score_df = <<>> <=> saved_ids = {}

\* two items rated once each, both scored
C16_Witness ==
    /\ Len(recipe_ratings) = 2
    /\ \A i \in DOMAIN recipe_ratings : Len(recipe_ratings[i].ratings) = 1
    /\ Len(score_df) = 2
    /\ saved_ids = {1, 2}

\* C19: with exactly one rated item its three normalised values and its score
\* are 1.0 and it is the dish of the day.
C19_SingleItem ==
    Len(recipe_ratings) = 1 =>
        /\ Len(score_df) = 1
        /\ score_df[1].id = recipe_ratings[1].id
        /\ score_df[1].norm_rating = Int2Rat(1)
        /\ score_df[1].norm_price = Int2Rat(1)
        /\ score_df[1].norm_cal = Int2Rat(1)
        /\ score_df[1].score = Int2Rat(1)
        /\ best.best = score_df[1]
        /\ best.score = Int2Rat(1)

\* the only rated item has three 1.0 ratings (discounted from 8.00 to 7.20,
\* 800 kcal) and is still the dish of the day with score 1.0
C19_Witness ==
    /\ Len(recipe_ratings) = 1
    /\ recipe_ratings[1].ratings = <<Int2Rat(1), Int2Rat(1), Int2Rat(1)>>
    /\ best.best.price = Rat(72, 10)
    /\ best.best.calories = Int2Rat(800)
    /\ best.score = Int2Rat(1)

====
